---- MODULE Spec2Model ----
(***************************************************************************)
(* getSelfSignedCert (src/mod.ts): the output directory, its four files,   *)
(* the openssl child process and the callers of getSelfSignedCert.  Every  *)
(* awaited operation of the code is one step of the calling process; the   *)
(* synchronous code that follows an await belongs to the same step.        *)
(***************************************************************************)
EXTENDS Integers, Sequences, FiniteSets

\* ---------------------------------------------------------------- bounds
\* calls made one after the other by the single caller of Spec
MaxCalls == 3
\* calls made by each of the two callers of SpecConc
MaxConcCalls == 1
\* longest extraAltNames array
MaxExtra == 2

\* ------------------------------------------------------------- constants
Procs == {1, 2}

GITIGNORE == ".gitignore"
KEYFILE == "selfsigned.key"
CERTFILE == "selfsigned.crt"
README == "readme.md"
FileNames == {GITIGNORE, KEYFILE, CERTFILE, README}

\* file contents: 0 is "no such file"; the text files hold the fixed text 1
\* (the request is the same in every call); key and certificate hold the
\* serial number of the openssl run that wrote them
Absent == 0
NoFiles == [f \in FileNames |-> Absent]

\* values of Deno.build.os
Platforms == {"darwin", "linux"}

\* exit codes of a failing openssl
ExitCodes == {1, 2}

\* entries an extraAltNames array is built from, each a sequence of text
\* pieces of the documented TYPE:value form; one repeats a built-in entry
AltNamePool == {<<"DNS:localhost">>, <<"IP:", "192.168.0.1">>}

SeqsUpTo(S, n) == UNION {[1..k -> S] : k \in 0..n}

NoErr == [src |-> "none", code |-> 0]
Err(src, code) == [src |-> src, code |-> code]
NoOutcome == [kind |-> "none", err |-> NoErr, key |-> Absent, cert |-> Absent]

VARIABLES
  os,             \* Deno.build.os
  extraAltNames,  \* options.extraAltNames, the same in every call
  quota,          \* how many calls each caller makes
  dir,            \* outDir exists and is a directory
  files,          \* contents of the files of outDir
  serial,         \* number of keys openssl has generated so far
  pc,             \* where each caller is inside getSelfSignedCert
  caught,         \* the error on its way to the catch block
  key,            \* const key of generateOutDirContents
  cert,           \* const cert (the value being returned)
  gen,            \* serial number of the key the caller's openssl wrote
  toolArgs,       \* the -addext argument given to the caller's openssl
  toolExit,       \* exit status of the caller's openssl: -1 not run/running
  outcome,        \* what the caller's last finished call returned or threw
  prev,           \* outcome of the call before, and whether it made outDir
  calls,          \* calls started by the caller
  effects,        \* what the current (or last) call did to the outside
  faulted,        \* an I/O operation of the current call failed spuriously
  start           \* outDir as the current call found it when it began

vars == <<os, extraAltNames, quota, dir, files, serial, pc, caught, key, cert,
          gen, toolArgs, toolExit, outcome, prev, calls, effects, faulted,
          start>>

fsVars == <<dir, files, serial>>
reqVars == <<os, extraAltNames, quota>>

\* ------------------------------------------------------ pure helpers
RECURSIVE Join(_)
\* Array.prototype.join(","): the pieces of all entries, a "," between entries
Join(names) ==
  IF names = <<>> THEN <<>>
  ELSE IF Len(names) = 1 THEN Head(names)
  ELSE Head(names) \o <<",">> \o Join(Tail(names))

FixedAltNames == << <<"DNS:localhost">>, <<"IP:127.0.0.1">>, <<"IP:0.0.0.0">> >>

\* s without the later repeats of its entries
RECURSIVE Dedup(_)
Dedup(s) ==
  IF s = <<>> THEN <<>>
  ELSE LET r == Dedup(SubSeq(s, 1, Len(s) - 1))
           x == s[Len(s)]
       IN IF \E i \in 1..Len(r) : r[i] = x THEN r ELSE Append(r, x)

\* variant: altNames with repeated entries dropped
AltNamesDedup(extra) == Dedup(FixedAltNames \o extra)

\* const altNames = [...]
AltNames(extra) == FixedAltNames \o extra

\* "subjectAltName = " + altNames.join(",")
SanArg(extra) == <<"subjectAltName = ">> \o Join(AltNames(extra))

\* variant: the platform test left out
AlwaysSupported == TRUE

\* Deno.build.os == "darwin"
Supported == os = "darwin"

\* variant: generation on every call
NeverExists == FALSE

\* await fs.exists(outDir, { isDirectory: true })
DirExists == dir

\* ---------------------------------------------------------------- Init
TypeInit ==
  /\ os \in Platforms
  /\ dir = FALSE
  /\ files = NoFiles
  /\ serial = 0
  /\ pc = [p \in Procs |-> "idle"]
  /\ caught = [p \in Procs |-> NoErr]
  /\ key = [p \in Procs |-> Absent]
  /\ cert = [p \in Procs |-> Absent]
  /\ gen = [p \in Procs |-> 0]
  /\ toolArgs = [p \in Procs |-> <<>>]
  /\ toolExit = [p \in Procs |-> -1]
  /\ outcome = [p \in Procs |-> NoOutcome]
  /\ prev = [p \in Procs |-> [out |-> NoOutcome, created |-> FALSE]]
  /\ calls = [p \in Procs |-> 0]
  /\ effects = [p \in Procs |-> {}]
  /\ faulted = [p \in Procs |-> FALSE]
  /\ start = [p \in Procs |-> [dir |-> FALSE, files |-> NoFiles]]

\* one caller, calling again and again
Init ==
  /\ TypeInit
  /\ extraAltNames \in SeqsUpTo(AltNamePool, MaxExtra)
  /\ quota = [p \in Procs |-> IF p = 1 THEN MaxCalls ELSE 0]

\* two callers at once
InitConc ==
  /\ TypeInit
  /\ extraAltNames = <<>>
  /\ quota = [p \in Procs |-> MaxConcCalls]

\* ------------------------------------------------------------- actions
\* the caller leaves getSelfSignedCert with a value or an exception
Finish(p, out) ==
  /\ outcome' = [outcome EXCEPT ![p] = out]
  /\ pc' = [pc EXCEPT ![p] = "idle"]

Throw(p, e) ==
  /\ caught' = [caught EXCEPT ![p] = e]
  /\ pc' = [pc EXCEPT ![p] = "catch"]

Did(p, what) == effects' = [effects EXCEPT ![p] = @ \cup {what}]

Fault(p) == faulted' = [faulted EXCEPT ![p] = TRUE]

\* getSelfSignedCert(options) is entered; up to the first await
Call(p) ==
  /\ pc[p] = "idle"
  /\ calls[p] < quota[p]
  /\ calls' = [calls EXCEPT ![p] = @ + 1]
  /\ prev' = [prev EXCEPT ![p] =
                [out |-> outcome[p], created |-> "mkdir" \in effects[p]]]
  /\ outcome' = [outcome EXCEPT ![p] = NoOutcome]
  /\ caught' = [caught EXCEPT ![p] = NoErr]
  /\ key' = [key EXCEPT ![p] = Absent]
  /\ cert' = [cert EXCEPT ![p] = Absent]
  /\ gen' = [gen EXCEPT ![p] = 0]
  /\ toolArgs' = [toolArgs EXCEPT ![p] = <<>>]
  /\ toolExit' = [toolExit EXCEPT ![p] = -1]
  /\ effects' = [effects EXCEPT ![p] = {}]
  /\ faulted' = [faulted EXCEPT ![p] = FALSE]
  /\ start' = [start EXCEPT ![p] = [dir |-> dir, files |-> files]]
  /\ pc' = [pc EXCEPT ![p] = "exists"]
  /\ UNCHANGED <<fsVars, reqVars>>

\* if (!await fs.exists(outDir, { isDirectory: true }))
Exists(p) ==
  /\ pc[p] = "exists"
  /\ pc' = [pc EXCEPT ![p] = IF DirExists THEN "readKey" ELSE "ensureDir"]
  /\ UNCHANGED <<fsVars, reqVars, caught, key, cert, gen, toolArgs, toolExit,
                 outcome, prev, calls, effects, faulted, start>>

\* await fs.ensureDir(outDir)
EnsureDir(p) ==
  /\ pc[p] = "ensureDir"
  /\ \/ /\ dir' = TRUE
        /\ IF dir THEN UNCHANGED effects ELSE Did(p, "mkdir")
        /\ pc' = [pc EXCEPT ![p] = "gitignore"]
        /\ UNCHANGED <<caught, faulted>>
     \/ /\ ~dir
        /\ Throw(p, Err("ensureDir", 0))
        /\ Fault(p)
        /\ UNCHANGED <<dir, effects>>
  /\ UNCHANGED <<files, serial, reqVars, key, cert, gen, toolArgs, toolExit,
                 outcome, prev, calls, start>>

\* await Deno.writeTextFile(".gitignore", "**"), then the platform test:
\* on darwin the openssl child is started, elsewhere the call returns null
WriteGitignore(p) ==
  /\ pc[p] = "gitignore"
  /\ \/ /\ dir
        /\ files' = [files EXCEPT ![GITIGNORE] = 1]
        /\ IF Supported
             THEN /\ toolArgs' = [toolArgs EXCEPT ![p] = SanArg(extraAltNames)]
                  /\ effects' = [effects EXCEPT ![p] =
                                   @ \cup {"gitignore", "spawn"}]
                  /\ pc' = [pc EXCEPT ![p] = "openssl"]
                  /\ UNCHANGED outcome
             ELSE /\ Did(p, "gitignore")
                  /\ Finish(p, [NoOutcome EXCEPT !.kind = "null"])
                  /\ UNCHANGED toolArgs
        /\ UNCHANGED <<caught, faulted>>
     \/ /\ Throw(p, Err("gitignore", 0))
        /\ IF dir THEN Fault(p) ELSE UNCHANGED faulted
        /\ UNCHANGED <<files, toolArgs, effects, outcome>>
  /\ UNCHANGED <<dir, serial, reqVars, key, cert, gen, toolExit, prev, calls,
                 start>>

\* the openssl child generates the key and writes it to keyFile, or exits
\* with an error before writing anything; the awaiting caller then throws
\* "openssl exited with status code " + code
ToolWritesKey(p) ==
  /\ pc[p] = "openssl"
  /\ \/ /\ dir
        /\ serial' = serial + 1
        /\ gen' = [gen EXCEPT ![p] = serial + 1]
        /\ files' = [files EXCEPT ![KEYFILE] = serial + 1]
        /\ pc' = [pc EXCEPT ![p] = "opensslCert"]
        /\ UNCHANGED <<caught, toolExit>>
     \/ \E c \in ExitCodes :
          /\ dir \/ c = 1
          /\ toolExit' = [toolExit EXCEPT ![p] = c]
          /\ Throw(p, Err("openssl", c))
          /\ UNCHANGED <<files, serial, gen>>
  /\ UNCHANGED <<dir, reqVars, key, cert, toolArgs, outcome, prev, calls,
                 effects, faulted, start>>

\* the child writes certFile and exits 0, or exits with an error leaving the
\* key behind; const { success, code } = await command.output()
ToolExits(p) ==
  /\ pc[p] = "opensslCert"
  /\ \/ /\ dir
        /\ files' = [files EXCEPT ![CERTFILE] = gen[p]]
        /\ toolExit' = [toolExit EXCEPT ![p] = 0]
        /\ pc' = [pc EXCEPT ![p] = "readme"]
        /\ UNCHANGED caught
     \/ \E c \in ExitCodes :
          /\ dir \/ c = 1
          /\ toolExit' = [toolExit EXCEPT ![p] = c]
          /\ Throw(p, Err("openssl", c))
          /\ UNCHANGED files
  /\ UNCHANGED <<dir, serial, reqVars, key, cert, gen, toolArgs, outcome,
                 prev, calls, effects, faulted, start>>

\* await Deno.writeTextFile("readme.md", ...)
WriteReadme(p) ==
  /\ pc[p] = "readme"
  /\ \/ /\ dir
        /\ files' = [files EXCEPT ![README] = 1]
        /\ Did(p, "readme")
        /\ pc' = [pc EXCEPT ![p] = "readKey"]
        /\ UNCHANGED <<caught, faulted>>
     \/ /\ Throw(p, Err("readme", 0))
        /\ IF dir THEN Fault(p) ELSE UNCHANGED faulted
        /\ UNCHANGED <<files, effects>>
  /\ UNCHANGED <<dir, serial, reqVars, key, cert, gen, toolArgs, toolExit,
                 outcome, prev, calls, start>>

\* const key = await Deno.readTextFile(keyFile)
ReadKey(p) ==
  /\ pc[p] = "readKey"
  /\ \/ /\ dir /\ files[KEYFILE] # Absent
        /\ key' = [key EXCEPT ![p] = files[KEYFILE]]
        /\ pc' = [pc EXCEPT ![p] = "readCert"]
        /\ UNCHANGED <<caught, faulted>>
     \/ /\ Throw(p, Err("readKey", 0))
        /\ IF dir /\ files[KEYFILE] # Absent
             THEN Fault(p) ELSE UNCHANGED faulted
        /\ UNCHANGED key
  /\ UNCHANGED <<fsVars, reqVars, cert, gen, toolArgs, toolExit, outcome,
                 prev, calls, effects, start>>

\* const cert = await Deno.readTextFile(certFile); return { key, cert, ... }
ReadCert(p) ==
  /\ pc[p] = "readCert"
  /\ \/ /\ dir /\ files[CERTFILE] # Absent
        /\ cert' = [cert EXCEPT ![p] = files[CERTFILE]]
        /\ Finish(p, [kind |-> "ok", err |-> NoErr, key |-> key[p],
                      cert |-> files[CERTFILE]])
        /\ UNCHANGED <<caught, faulted>>
     \/ /\ Throw(p, Err("readCert", 0))
        /\ IF dir /\ files[CERTFILE] # Absent
             THEN Fault(p) ELSE UNCHANGED faulted
        /\ UNCHANGED <<cert, outcome>>
  /\ UNCHANGED <<fsVars, reqVars, key, gen, toolArgs, toolExit, prev, calls,
                 effects, start>>

\* variant: a catch block that rethrows without removing outDir
CatchNoCleanup(p) ==
  /\ pc[p] = "catch"
  /\ Finish(p, [NoOutcome EXCEPT !.kind = "error", !.err = caught[p]])
  /\ UNCHANGED <<fsVars, reqVars, caught, key, cert, gen, toolArgs, toolExit,
                 prev, calls, effects, faulted, start>>

\* catch (e) { await Deno.remove(outDir, { recursive: true }); throw e; }
\* Deno.remove of a path that does not exist rejects with NotFound, and that
\* rejection leaves the catch block in place of e
Catch(p) ==
  /\ pc[p] = "catch"
  /\ IF dir
       THEN /\ dir' = FALSE
            /\ files' = NoFiles
            /\ Did(p, "remove")
            /\ Finish(p, [NoOutcome EXCEPT !.kind = "error", !.err = caught[p]])
       ELSE /\ Finish(p, [NoOutcome EXCEPT !.kind = "error",
                                           !.err = Err("remove", 0)])
            /\ UNCHANGED <<dir, files, effects>>
  /\ UNCHANGED <<serial, reqVars, caught, key, cert, gen, toolArgs, toolExit,
                 prev, calls, faulted, start>>

Next ==
  \E p \in Procs :
    \/ Call(p)
    \/ Exists(p)
    \/ EnsureDir(p)
    \/ WriteGitignore(p)
    \/ ToolWritesKey(p)
    \/ ToolExits(p)
    \/ WriteReadme(p)
    \/ ReadKey(p)
    \/ ReadCert(p)
    \/ Catch(p)

Spec == Init /\ [][Next]_vars

SpecConc == InitConc /\ [][Next]_vars

\* ------------------------------------------------------------ properties
\* the caller's latest call has returned or thrown
Done(p) == pc[p] = "idle" /\ calls[p] > 0

Wrote(p) == effects[p] \cap {"mkdir", "gitignore", "readme", "spawn"}

OnlyGitignore == [NoFiles EXCEPT ![GITIGNORE] = 1]

RECURSIVE SplitCommas(_)
\* the list openssl reads out of a comma separated extension value
SplitCommas(t) ==
  IF t = <<>> THEN << <<>> >>
  ELSE LET r == SplitCommas(Tail(t))
       IN IF Head(t) = "," THEN << <<>> >> \o r
          ELSE << <<Head(t)>> \o Head(r) >> \o Tail(r)

\* C1: a call that follows a call which made the directory and returned a
\* result never starts openssl, returns the key and certificate that call
\* returned, and fails only if one of its two reads fails spuriously.
C1_Idempotent ==
  \A p \in Procs :
    (calls[p] > 0 /\ prev[p].out.kind = "ok" /\ prev[p].created) =>
      /\ "spawn" \notin effects[p]
      /\ toolExit[p] = -1
      /\ Done(p) =>
           /\ outcome[p].kind = "ok" =>
                /\ outcome[p].key = prev[p].out.key
                /\ outcome[p].cert = prev[p].out.cert
           /\ ~faulted[p] => outcome[p].kind = "ok"

C1_Witness ==
  /\ Done(1) /\ prev[1].out.kind = "ok" /\ prev[1].created
  /\ outcome[1].kind = "ok"
  /\ outcome[1].key = prev[1].out.key /\ outcome[1].key # Absent
  /\ outcome[1].cert = prev[1].out.cert /\ outcome[1].cert # Absent

\* C2: a call that found no directory on darwin and whose openssl exited
\* non-zero throws the openssl error with that exit code, and the directory
\* does not exist when it has thrown.
C2_ToolFailureAtomic ==
  \A p \in Procs :
    (Done(p) /\ ~start[p].dir /\ os = "darwin" /\ toolExit[p] > 0) =>
      /\ outcome[p].kind = "error"
      /\ outcome[p].err = [src |-> "openssl", code |-> toolExit[p]]
      /\ ~dir

C2_Witness ==
  /\ Done(1) /\ ~start[1].dir /\ os = "darwin" /\ toolExit[1] = 2
  /\ outcome[1].err = [src |-> "openssl", code |-> 2]
  /\ files[KEYFILE] = Absent /\ ~dir

\* C3 as claimed: between calls the directory is absent or holds both key
\* and certificate, and after a failed call it is absent.
C3_Original ==
  \A p \in Procs :
    Done(p) =>
      /\ dir => (files[KEYFILE] # Absent /\ files[CERTFILE] # Absent)
      /\ outcome[p].kind = "error" => ~dir

\* C3 amended: between calls the directory is absent, or holds both key and
\* certificate, or was left holding .gitignore alone by a call that returned
\* null on an unsupported platform; after a failed call it is absent.
C3_NoPartialState ==
  \A p \in Procs :
    Done(p) =>
      /\ dir =>
           \/ files[KEYFILE] # Absent /\ files[CERTFILE] # Absent
           \/ os # "darwin" /\ outcome[p].kind = "null" /\ files = OnlyGitignore
      /\ outcome[p].kind = "error" => ~dir

C3_Witness ==
  /\ Done(1) /\ calls[1] = 3 /\ os # "darwin"
  /\ prev[1].out.kind = "error"
  /\ outcome[1].kind = "null" /\ dir /\ files = OnlyGitignore

\* C4: on a platform other than darwin a call that found no directory never
\* starts openssl and never returns a certificate; unless creating the
\* directory or writing .gitignore fails it returns null and leaves the
\* directory holding .gitignore alone.
C4_UnsupportedFirstCall ==
  \A p \in Procs :
    (calls[p] > 0 /\ ~start[p].dir /\ os # "darwin") =>
      /\ "spawn" \notin effects[p] /\ "readme" \notin effects[p]
      /\ toolArgs[p] = <<>>
      /\ outcome[p].kind # "ok"
      /\ (Done(p) /\ ~faulted[p]) =>
           /\ outcome[p].kind = "null"
           /\ dir /\ files = OnlyGitignore

C4_Witness ==
  /\ Done(1) /\ calls[1] = 1 /\ ~start[1].dir /\ os # "darwin"
  /\ outcome[1].kind = "null" /\ effects[1] = {"mkdir", "gitignore"}
  /\ dir /\ files = OnlyGitignore

\* C5 as claimed: on an unsupported platform every call whose I/O does not
\* fail spuriously ends with null, and no call after the first creates or
\* removes the directory.
C5_Claim ==
  \A p \in Procs :
    (Done(p) /\ os # "darwin" /\ ~faulted[p]) =>
      /\ outcome[p].kind = "null"
      /\ calls[p] > 1 => effects[p] \cap {"mkdir", "remove"} = {}

\* C6 as claimed: the error a failing call throws is the error of the step
\* that failed.
C6_Claim ==
  \A p \in Procs :
    (Done(p) /\ caught[p] # NoErr) =>
      /\ outcome[p].kind = "error"
      /\ outcome[p].err = caught[p]

\* C7: the extension value given to openssl is "subjectAltName = " followed
\* by a comma separated list that reads back as DNS:localhost, IP:127.0.0.1,
\* IP:0.0.0.0 and then every entry of extraAltNames, in order, repeats kept.
C7_AltNameOrder ==
  \A p \in Procs :
    toolArgs[p] # <<>> =>
      LET names == SplitCommas(Tail(toolArgs[p]))
      IN /\ Head(toolArgs[p]) = "subjectAltName = "
         /\ Len(names) = 3 + Len(extraAltNames)
         /\ names[1] = <<"DNS:localhost">>
         /\ names[2] = <<"IP:127.0.0.1">>
         /\ names[3] = <<"IP:0.0.0.0">>
         /\ \A i \in 1..Len(extraAltNames) : names[3 + i] = extraAltNames[i]

C7_Witness ==
  /\ "spawn" \in effects[1]
  /\ extraAltNames = << <<"DNS:localhost">>, <<"DNS:localhost">> >>
  /\ Len(SplitCommas(Tail(toolArgs[1]))) = 5

\* C8: a call that found the directory holding key and certificate creates
\* no directory, writes no file and starts no openssl, so every file keeps
\* the contents it had, and when the call returns its result nothing at all
\* has changed; readme.md is written only by a call on darwin whose openssl
\* has exited 0.
C8_CacheHitFrame ==
  \A p \in Procs :
    /\ (calls[p] > 0 /\ start[p].dir /\ start[p].files[KEYFILE] # Absent
          /\ start[p].files[CERTFILE] # Absent) =>
         /\ Wrote(p) = {}
         /\ toolExit[p] = -1
         /\ \A f \in FileNames : files[f] \in {start[p].files[f], Absent}
         /\ (Done(p) /\ outcome[p].kind = "ok") =>
              /\ effects[p] = {}
              /\ dir /\ files = start[p].files
    /\ "readme" \in effects[p] =>
         /\ os = "darwin" /\ ~start[p].dir
         /\ "spawn" \in effects[p] /\ toolExit[p] = 0

C8_Witness ==
  /\ Done(1) /\ start[1].dir /\ start[1].files[KEYFILE] # Absent
  /\ start[1].files[CERTFILE] # Absent /\ start[1].files[README] # Absent
  /\ outcome[1].kind = "ok" /\ effects[1] = {} /\ files = start[1].files

\* C9 as claimed: a call that found the directory existing never removes it.
C9_Claim ==
  \A p \in Procs :
    (calls[p] > 0 /\ start[p].dir) => (dir /\ "remove" \notin effects[p])

\* C10 as claimed: two calls overlapping on darwin, started with no
\* directory, no openssl run failing and no I/O failing spuriously: neither
\* throws, neither removes the directory, and when both are over the
\* directory holds key and certificate.
C10_Claim ==
  (/\ os = "darwin"
   /\ \A p \in Procs : calls[p] > 0 /\ ~faulted[p] /\ toolExit[p] \in {-1, 0}
   /\ \E p \in Procs : toolExit[p] = 0) =>
     /\ \A p \in Procs :
          outcome[p].kind # "error" /\ "remove" \notin effects[p]
     /\ (\A p \in Procs : Done(p)) =>
          dir /\ files[KEYFILE] # Absent /\ files[CERTFILE] # Absent

====
